---- MODULE Spec2Model ----
(***************************************************************************)
(* Voice recorder (src/app.py): the Streamlit session state, the           *)
(* AudioRecorder objects with their sounddevice input streams, the capture *)
(* callback running on the audio thread, and the stop pipeline             *)
(* stop() -> save_audio -> upload_to_s3 -> os.remove.                      *)
(*                                                                         *)
(* Spec     the page: button clicks drive the script, the audio thread     *)
(*          interleaves with the foreground between the calls of stop().   *)
(* RecSpec  the AudioRecorder class on its own: start() and stop() called  *)
(*          in any order on a recorder.                                    *)
(*                                                                         *)
(* st.experimental_rerun() raises Streamlit's RerunException, which is a   *)
(* BaseException: "except Exception" does not catch it, the script run     *)
(* ends there and the script is run again without a click.                 *)
(***************************************************************************)
EXTENDS Integers, Sequences, FiniteSets, TLC

\* ---------------------------------------------------------------- bounds
MaxRecorders == 3   \* AudioRecorder objects constructed in a run
MaxStreams == 3     \* sd.InputStream objects constructed in a run
MaxSamples == 2     \* frames a buffer can hold before capture is cut off
MaxClip == 5        \* longest sample sequence handed to save_audio on its own

\* amplitudes in thousandths: -0.5 and 1.0
Samples == {-500, 1000}

\* indata of one callback: one frame or two frames
Blocks == {<<s>> : s \in Samples} \cup {<<s, t>> : s \in Samples, t \in Samples}

\* ------------------------------------------------------- program constants
None == "None"
CHANNELS == 1
SAMPWIDTH == 2
FRAMERATE == 44100
INT16_MAX == 32767
URL == "https://bucket/source/temp_recording.wav?sig"

MSG_START_FAILED == "Failed to start recording"
MSG_STOP_FAILED == "Error stopping recording"
MSG_PROCESS_FAILED == "Error processing recording"
MSG_UPLOAD_FAILED == "Failed to upload to S3"
MSG_NO_DATA == "No audio data recorded. Please check your microphone settings."
STATUS_STARTED == "Recording started..."
STATUS_SAVED == "Audio saved successfully"
STATUS_UPLOADED == "Recording uploaded successfully!"

VARIABLES
    recording,              \* st.session_state['recording']
    audio_recorder,         \* st.session_state['audio_recorder']: 0 is None, else an index of recorders
    error_message,          \* st.session_state['error_message']
    last_recording_status,  \* st.session_state['last_recording_status']
    download_url,           \* st.session_state['download_url']
    recorders,              \* the AudioRecorder objects: [audio_data, recording, stream]
    streams,                \* the sd.InputStream objects: [status, owner]
    file,                   \* temp_recording.wav on disk
    pc,                     \* where the foreground thread is
    ret,                    \* what the last stop() call returned or raised
    cb,                     \* the capture callback on the audio thread
    calls,                  \* calls made by the current handler or method call, in order
    op,                     \* the handler or method that ran last
    started,                \* recorders on which start() has been called
    captured,               \* per recorder, the frames its callback appended since its last start()
    clip,                   \* the frames save_audio wrote for the stop in progress
    shown_error,            \* st.error of the last script run
    shown_status,           \* st.info of the last script run
    shown_url               \* the download link rendered by the last script run

session == <<recording, audio_recorder, error_message, last_recording_status, download_url>>
shown == <<shown_error, shown_status, shown_url>>
vars == <<recording, audio_recorder, error_message, last_recording_status, download_url,
          recorders, streams, file, pc, ret, cb, calls, op, started, captured, clip,
          shown_error, shown_status, shown_url>>

NoFile == [exists |-> FALSE, nchannels |-> 0, sampwidth |-> 0, framerate |-> 0, frames |-> <<>>]
NoReturn == [raised |-> FALSE, data |-> <<>>]
CbIdle == [at |-> "idle", stream |-> 0, indata |-> <<>>]

Call(fn, ok) == [fn |-> fn, ok |-> ok]

\* AudioRecorder.__init__
NewRecorder == [audio_data |-> <<>>, recording |-> FALSE, stream |-> 0]

Init ==
    /\ recording = FALSE
    /\ audio_recorder = 0
    /\ error_message = None
    /\ last_recording_status = None
    /\ download_url = None
    /\ recorders = <<>>
    /\ streams = <<>>
    /\ file = NoFile
    /\ pc = "idle"
    /\ ret = NoReturn
    /\ cb = CbIdle
    /\ calls = <<>>
    /\ op = "none"
    /\ started = {}
    /\ captured = <<>>
    /\ clip = <<>>
    /\ shown_error = None
    /\ shown_status = None
    /\ shown_url = None


\* ------------------------------------------------------------ AudioRecorder
StartOutcomes == {"ok", "open_raises", "start_raises"}
CallOutcomes == {"ok", "raise"}
SaveOutcomes == {"ok", "raise_open", "raise_write"}

\* start() without line 82
startKeepsBuffer(rec, sid, o) ==
    [audio_data |-> rec.audio_data,
     recording |-> TRUE,
     stream |-> IF o = "open_raises" THEN rec.stream ELSE sid]

\* start(): the recorder after lines 82-89; sid is the stream sd.InputStream
\* would construct. self.stream is assigned only if the constructor returns.
start(rec, sid, o) ==
    [audio_data |-> <<>>,
     recording |-> TRUE,
     stream |-> IF o = "open_raises" THEN rec.stream ELSE sid]

\* the streams after start() on recorder r: none constructed if the
\* constructor raises, constructed but not running if stream.start() raises
StartStreams(r, o) ==
    IF o = "open_raises" THEN streams
    ELSE Append(streams, [status |-> IF o = "ok" THEN "active" ELSE "open", owner |-> r])

StartCalls(o) ==
    IF o = "open_raises" THEN <<Call("sd.InputStream", FALSE)>>
    ELSE <<Call("sd.InputStream", TRUE), Call("stream.start", o = "ok")>>

\* stop() without the test of line 94
StopHasStreamAlways(rec) == TRUE

\* stop(), line 94: "if self.stream"
StopHasStream(rec) == rec.stream # 0

\* stop(), lines 94-95 and 100-101: enter stop() on recorder r
StopEnter(r) ==
    /\ calls' = <<>>
    /\ IF StopHasStream(recorders[r])
       THEN /\ recorders' = [recorders EXCEPT ![r].recording = FALSE]
            /\ ret' = NoReturn
            /\ pc' = "stream_stop"
       ELSE /\ recorders' = recorders
            /\ ret' = [raised |-> FALSE, data |-> <<>>]
            /\ pc' = "returned"

Self == recorders[audio_recorder]

\* stop(), line 96: self.stream.stop(). Pa_StopStream returns only after a
\* callback in flight on that stream has returned.
StreamStop ==
    /\ pc = "stream_stop"
    /\ \E o \in CallOutcomes :
        LET s == Self.stream
            ok == o = "ok" /\ s # 0
        IN  /\ ok => (cb.at = "idle" \/ cb.stream # s)
            /\ calls' = Append(calls, Call("stream.stop", ok))
            /\ IF ok
               THEN /\ streams' = [streams EXCEPT ![s].status =
                                      IF @ = "active" THEN "open" ELSE @]
                    /\ pc' = "stream_close"
                    /\ ret' = ret
               ELSE /\ streams' = streams
                    /\ pc' = "returned"
                    /\ ret' = [raised |-> TRUE, data |-> <<>>]
    /\ UNCHANGED <<session, shown, recorders, file, clip, cb, op, started, captured>>

\* stop(), line 97: self.stream.close()
StreamClose ==
    /\ pc = "stream_close"
    /\ \E o \in CallOutcomes :
        LET s == Self.stream
            ok == o = "ok" /\ s # 0
        IN  /\ calls' = Append(calls, Call("stream.close", ok))
            /\ IF ok
               THEN /\ streams' = [streams EXCEPT ![s].status = "closed"]
                    /\ pc' = "snapshot"
                    /\ ret' = ret
               ELSE /\ streams' = streams
                    /\ pc' = "returned"
                    /\ ret' = [raised |-> TRUE, data |-> <<>>]
    /\ UNCHANGED <<session, shown, recorders, file, clip, cb, op, started, captured>>

\* stop() returning the buffer before lines 96-97
SnapshotBeforeStop ==
    /\ pc = "stream_stop"
    /\ ret' = [raised |-> FALSE, data |-> Self.audio_data]
    /\ pc' = "returned"
    /\ UNCHANGED <<session, shown, recorders, streams, file, clip, cb, calls, op, started, captured>>

\* stop(), line 99: return np.array(self.audio_data)
Snapshot ==
    /\ pc = "snapshot"
    /\ ret' = [raised |-> FALSE, data |-> Self.audio_data]
    /\ pc' = "returned"
    /\ UNCHANGED <<session, shown, recorders, streams, file, clip, cb, calls, op, started, captured>>

\* callback(), lines 75-77: the audio thread delivers a block on an active
\* stream and tests self.recording
CallbackEnter ==
    /\ cb.at = "idle"
    /\ \E s \in 1..Len(streams), b \in Blocks :
        /\ streams[s].status = "active"
        /\ Len(recorders[streams[s].owner].audio_data) + Len(b) <= MaxSamples
        /\ cb' = IF recorders[streams[s].owner].recording
                 THEN [at |-> "append", stream |-> s, indata |-> b]
                 ELSE cb
    /\ UNCHANGED <<session, shown, recorders, streams, file, clip, pc, ret, calls, op, started, captured>>

\* callback(), line 78: self.audio_data.extend(indata.copy())
CallbackAppend ==
    /\ cb.at = "append"
    /\ recorders' = [recorders EXCEPT ![streams[cb.stream].owner].audio_data = @ \o cb.indata]
    /\ captured' = [captured EXCEPT ![streams[cb.stream].owner] = @ \o cb.indata]
    /\ cb' = CbIdle
    /\ UNCHANGED <<session, shown, streams, file, clip, pc, ret, calls, op, started>>


\* ------------------------------------------------------ save / upload / remove
\* float -> int16 as astype(np.int16) does it for an in-range product:
\* truncation toward zero
Trunc(n, d) == IF n >= 0 THEN n \div d ELSE -((-n) \div d)
ToInt16(a) == Trunc(a * INT16_MAX, 1000)

\* every sample written twice, as for a two-column array
RECURSIVE EncodeTwice(_)
EncodeTwice(audio_data) ==
    IF audio_data = <<>> THEN <<>>
    ELSE <<ToInt16(Head(audio_data)), ToInt16(Head(audio_data))>> \o EncodeTwice(Tail(audio_data))

RECURSIVE Encode(_)
Encode(audio_data) ==
    IF audio_data = <<>> THEN <<>>
    ELSE <<ToInt16(Head(audio_data))>> \o Encode(Tail(audio_data))

\* save_audio(audio_data, filename) on the file f: returns False without
\* touching the file for an empty input; wave.open may raise before the file
\* is created, writeframes after it was created and truncated.
save_audio(audio_data, f, o) ==
    IF Len(audio_data) = 0
    THEN [raised |-> FALSE, result |-> FALSE, file |-> f]
    ELSE IF o = "raise_open"
    THEN [raised |-> TRUE, result |-> FALSE, file |-> f]
    ELSE [raised |-> o # "ok",
          result |-> o = "ok",
          file |-> [exists |-> TRUE,
                    nchannels |-> CHANNELS,
                    sampwidth |-> SAMPWIDTH,
                    framerate |-> FRAMERATE,
                    frames |-> IF o = "ok" THEN Encode(audio_data) ELSE <<>>]]

\* upload_to_s3(filename): the presigned URL, or the exception re-raised
upload_to_s3(o) == [raised |-> o # "ok", url |-> IF o = "ok" THEN URL ELSE None]

\* os.remove(filename)
os_remove(f, o) == IF o = "ok" THEN NoFile ELSE f

\* upload_to_s3 moved out of the try block of save_audio
UploadAttemptedAlways(sv) == TRUE

\* lines 190-196: upload_to_s3 is called when save_audio returned
UploadAttempted(sv) == ~sv.raised

\* os.remove moved into the upload's try block
RemoveAttemptedUnlessUploadFailed(sv, up) == ~sv.raised /\ ~up.raised

\* lines 200-205: os.remove is called after the upload's try/except, which
\* swallows the upload's exception
RemoveAttempted(sv, up) == ~sv.raised

\* line 187 without the test
HasAudioAlways(audio_data) == TRUE

\* line 187: len(audio_data) > 0
HasAudio(audio_data) == Len(audio_data) > 0

\* lines 197-199 without the store into download_url
UrlAfterUploadDropped(up, old) == old

\* lines 197-199: download_url after the upload step
UrlAfterUpload(up, old) == IF ~up.raised /\ up.url # "" THEN up.url ELSE old

\* lines 187-212, for a snapshot with len(audio_data) > 0
Pipeline(audio_data, so, uo, ro) ==
    LET sv == save_audio(audio_data, file, so)
        uploads == UploadAttempted(sv)
        up == upload_to_s3(uo)
        removes == RemoveAttempted(sv, up)
        rmRaised == removes /\ ro # "ok"
    IN  [file |-> IF removes THEN os_remove(sv.file, ro) ELSE sv.file,
         clip |-> IF sv.result THEN sv.file.frames ELSE clip,
         status |-> IF sv.raised THEN None
                    ELSE IF uploads /\ ~up.raised /\ up.url # "" THEN STATUS_UPLOADED
                    ELSE STATUS_SAVED,
         url |-> IF uploads THEN UrlAfterUpload(up, download_url) ELSE download_url,
         error |-> IF sv.raised \/ rmRaised THEN MSG_PROCESS_FAILED
                   ELSE IF uploads /\ up.raised THEN MSG_UPLOAD_FAILED
                   ELSE None,
         calls |-> <<Call("save_audio", ~sv.raised)>>
                   \o (IF uploads THEN <<Call("upload_to_s3", ~up.raised)>> ELSE <<>>)
                   \o (IF removes THEN <<Call("os.remove", ro = "ok")>> ELSE <<>>)]

\* ------------------------------------------------------------------ the page
\* line 173 moved before the call of start()
StartSessionRecordingAlways(o) == TRUE

\* line 173: reached only when start() returned
StartSessionRecording(o) == IF o = "ok" THEN TRUE ELSE recording

\* line 185: reached only when stop() returned
StopSessionRecording(r) == IF r.raised THEN recording ELSE FALSE

\* lines 167-179: a click on "Start Recording". The script run first shows and
\* clears the pending messages (lines 148-155).
ClickStart ==
    /\ pc = "idle"
    /\ ~recording
    /\ Len(recorders) < MaxRecorders
    /\ Len(streams) < MaxStreams
    /\ \E o \in StartOutcomes :
        LET r == Len(recorders) + 1
        IN  /\ recorders' = Append(recorders, start(NewRecorder, Len(streams) + 1, o))
            /\ streams' = StartStreams(r, o)
            /\ audio_recorder' = r
            /\ started' = started \cup {r}
            /\ captured' = Append(captured, <<>>)
            /\ recording' = StartSessionRecording(o)
            /\ last_recording_status' = IF o = "ok" THEN STATUS_STARTED ELSE None
            /\ error_message' = IF o = "ok" THEN None ELSE MSG_START_FAILED
            /\ calls' = StartCalls(o)
    /\ op' = "start"
    /\ pc' = "rerun"
    /\ clip' = <<>>
    /\ UNCHANGED <<download_url, file, ret, cb, shown>>

\* lines 167, 180-184: a click on "Stop Recording" enters stop()
ClickStop ==
    /\ pc = "idle"
    /\ recording
    /\ op' = "stop"
    /\ error_message' = None
    /\ last_recording_status' = None
    /\ IF audio_recorder # 0
       THEN StopEnter(audio_recorder)
       ELSE /\ pc' = "rerun"
            /\ calls' = <<>>
            /\ UNCHANGED <<recorders, ret>>
    /\ clip' = <<>>
    /\ UNCHANGED <<recording, audio_recorder, download_url, streams, file, cb, started, captured, shown>>

\* lines 185-217: the rest of the stop handler, once stop() has returned or raised
Finalize ==
    /\ pc = "returned"
    /\ recording' = StopSessionRecording(ret)
    /\ IF ret.raised
       THEN /\ error_message' = MSG_STOP_FAILED
            /\ UNCHANGED <<last_recording_status, download_url, file, clip, calls>>
       ELSE IF HasAudio(ret.data)
       THEN \E so \in SaveOutcomes, uo \in CallOutcomes, ro \in CallOutcomes :
               LET p == Pipeline(ret.data, so, uo, ro)
               IN  /\ file' = p.file
                   /\ clip' = p.clip
                   /\ last_recording_status' = p.status
                   /\ download_url' = p.url
                   /\ error_message' = p.error
                   /\ calls' = calls \o p.calls
       ELSE /\ error_message' = MSG_NO_DATA
            /\ UNCHANGED <<last_recording_status, download_url, file, clip, calls>>
    /\ pc' = "rerun"
    /\ UNCHANGED <<audio_recorder, recorders, streams, ret, cb, op, started, captured, shown>>

\* st.experimental_rerun(): the script runs again without a click. Lines
\* 148-155 show and clear the messages; while recording the script stays in
\* the loop of lines 223-225, otherwise lines 228-230 show and clear the link.
Rerun ==
    /\ pc = "rerun"
    /\ shown_error' = error_message
    /\ error_message' = None
    /\ shown_status' = last_recording_status
    /\ last_recording_status' = None
    /\ IF recording
       THEN /\ shown_url' = None
            /\ download_url' = download_url
       ELSE /\ shown_url' = download_url
            /\ download_url' = None
    /\ pc' = "idle"
    /\ UNCHANGED <<recording, audio_recorder, recorders, streams, file, clip, ret, cb, calls, op, started, captured>>

Next ==
    \/ ClickStart
    \/ ClickStop
    \/ StreamStop
    \/ StreamClose
    \/ Snapshot
    \/ Finalize
    \/ Rerun
    \/ CallbackEnter
    \/ CallbackAppend

Spec == Init /\ [][Next]_vars

\* ------------------------------------------------- the AudioRecorder class alone
\* AudioRecorder()
RecNew ==
    /\ pc = "idle"
    /\ Len(recorders) < MaxRecorders
    /\ recorders' = Append(recorders, NewRecorder)
    /\ audio_recorder' = Len(recorders) + 1
    /\ op' = "new"
    /\ calls' = <<>>
    /\ captured' = Append(captured, <<>>)
    /\ UNCHANGED <<recording, error_message, last_recording_status, download_url,
                   streams, file, clip, pc, ret, cb, started, shown>>

\* recorder.start(), returning or raising
RecStart ==
    /\ pc = "idle"
    /\ audio_recorder # 0
    /\ Len(streams) < MaxStreams
    /\ \E o \in StartOutcomes :
        /\ recorders' = [recorders EXCEPT ![audio_recorder] = start(@, Len(streams) + 1, o)]
        /\ streams' = StartStreams(audio_recorder, o)
        /\ calls' = StartCalls(o)
    /\ started' = started \cup {audio_recorder}
    /\ captured' = [captured EXCEPT ![audio_recorder] = <<>>]
    /\ op' = "start"
    /\ UNCHANGED <<session, file, clip, pc, ret, cb, shown>>

\* recorder.stop() is called
RecStop ==
    /\ pc = "idle"
    /\ audio_recorder # 0
    /\ StopEnter(audio_recorder)
    /\ op' = "stop"
    /\ UNCHANGED <<session, streams, file, clip, cb, started, captured, shown>>

\* recorder.stop() hands its result, or its exception, to the caller
RecReturn ==
    /\ pc = "returned"
    /\ pc' = "idle"
    /\ UNCHANGED <<session, shown, recorders, streams, file, clip, ret, cb, calls, op, started, captured>>

RecNext ==
    \/ RecNew
    \/ RecStart
    \/ RecStop
    \/ StreamStop
    \/ StreamClose
    \/ Snapshot
    \/ RecReturn
    \/ CallbackEnter
    \/ CallbackAppend

RecSpec == Init /\ [][RecNext]_vars


\* ------------------------------------------------------------------ properties
HandlerDone == pc = "rerun"
Made(fn) == {i \in DOMAIN calls : calls[i].fn = fn}
MadeOk(fn) == {i \in DOMAIN calls : calls[i].fn = fn /\ calls[i].ok}
MadeFailed(fn) == {i \in DOMAIN calls : calls[i].fn = fn /\ ~calls[i].ok}
SomeCallFailed == \E i \in DOMAIN calls : ~calls[i].ok
OpenStreams == {s \in DOMAIN streams : streams[s].status # "closed"}
OpenStreamsOf(r) == {s \in OpenStreams : streams[s].owner = r}

\* C1: when the stop handler finishes, whatever stop(), save_audio,
\* upload_to_s3 or os.remove did, st.session_state['recording'] is False.
C1_StopEndsIdle == (HandlerDone /\ op = "stop") => recording = FALSE

\* C2: a start request from Idle whose stream could not be opened or started
\* ends with the controller Idle and an error message set.
C2_FailedStartIdle ==
    (HandlerDone /\ op = "start" /\ SomeCallFailed)
        => (recording = FALSE /\ error_message = MSG_START_FAILED)

C2_Witness ==
    /\ HandlerDone /\ op = "start"
    /\ MadeFailed("stream.start") # {}
    /\ error_message = MSG_START_FAILED

\* C3: at most one input stream is constructed and not yet closed.
C3_OneOpenStream == Cardinality(OpenStreams) <= 1

\* C4: after a stop with a non-empty capture and a successful encode, a
\* successful upload leaves a non-empty download URL, which the next script run
\* renders; a failed upload leaves an error message and no download URL, and
\* the next script run renders the error and no link.
C4_UploadOutcomeExposed ==
    (op = "stop" /\ MadeOk("save_audio") # {}) =>
        /\ (HandlerDone /\ MadeOk("upload_to_s3") # {})
               => (download_url # None /\ download_url # "")
        /\ (HandlerDone /\ MadeFailed("upload_to_s3") # {})
               => (error_message # None /\ download_url = None)
        /\ (pc = "idle" /\ MadeOk("upload_to_s3") # {})
               => (shown_url # None /\ shown_url # "")
        /\ (pc = "idle" /\ MadeFailed("upload_to_s3") # {})
               => (shown_error # None /\ shown_url = None)

C4_Witness ==
    /\ pc = "idle" /\ op = "stop"
    /\ MadeOk("upload_to_s3") # {}
    /\ shown_url = URL

\* C5: within one stop request upload_to_s3 is called at most once, only
\* after a save_audio call of that request that succeeded, and not at all when
\* save_audio raised.
C5_UploadOnceAfterSave ==
    /\ Cardinality(Made("upload_to_s3")) <= 1
    /\ \A i \in Made("upload_to_s3") : \E j \in MadeOk("save_audio") : j < i
    /\ MadeFailed("save_audio") # {} => Made("upload_to_s3") = {}

C5_Witness ==
    /\ HandlerDone /\ op = "stop"
    /\ MadeFailed("upload_to_s3") # {}

\* C6: a stop that captured zero samples produces no WAV file, attempts no
\* upload and sets a message for the user; save_audio given an empty sequence
\* returns False and leaves the file system alone.
C6_EmptyCapture ==
    [][(pc = "returned" /\ ~ret.raised /\ ret.data = <<>> /\ pc' = "rerun")
          => /\ file' = file
             /\ calls' = calls
             /\ Made("save_audio") = {} /\ Made("upload_to_s3") = {}
             /\ error_message' = MSG_NO_DATA
             /\ \A o \in SaveOutcomes :
                   save_audio(<<>>, file, o) = [raised |-> FALSE, result |-> FALSE, file |-> file]]_vars

C6_Witness ==
    /\ HandlerDone /\ op = "stop"
    /\ ~ret.raised /\ ret.data = <<>>
    /\ error_message = MSG_NO_DATA
    /\ MadeOk("stream.close") # {}

\* C7 as stated: after a stop whose encode succeeded the temporary file is
\* gone when the handler finishes.
C7_FileGone ==
    (HandlerDone /\ op = "stop" /\ MadeOk("save_audio") # {}) => ~file.exists

\* C7 amended: after a stop whose encode succeeded, os.remove is called
\* exactly once, after the upload attempt, whether the upload succeeded or
\* failed, and the temporary file is gone when the handler finishes unless
\* that os.remove call itself raised.
C7_FileRemovedUnlessRemoveFails ==
    (HandlerDone /\ op = "stop" /\ MadeOk("save_audio") # {}) =>
        /\ Cardinality(Made("os.remove")) = 1
        /\ \A i \in Made("os.remove") : \E j \in Made("upload_to_s3") : j < i
        /\ MadeOk("os.remove") # {} => ~file.exists

C7_Witness ==
    /\ HandlerDone /\ op = "stop"
    /\ MadeOk("save_audio") # {}
    /\ MadeFailed("upload_to_s3") # {}
    /\ MadeOk("os.remove") # {}
    /\ ~file.exists

\* C8: after a handler in which something failed (a message was set for the
\* user), the controller is Idle, so that the next click is a start request.
C8_IdleAfterFailure == (HandlerDone /\ error_message # None) => recording = FALSE

\* C9: stop() on a recorder on which start() was never called returns an
\* empty buffer without raising, touches no stream and leaves the recorder as
\* the constructor made it.
C9_StopNeverStarted ==
    (op = "stop" /\ audio_recorder \notin started) =>
        /\ pc \in {"returned", "idle"}
        /\ ret = [raised |-> FALSE, data |-> <<>>]
        /\ calls = <<>>
        /\ Self = NewRecorder

C9_Witness ==
    /\ op = "stop" /\ audio_recorder \notin started
    /\ pc = "returned"
    /\ started # {}

\* C10: stop() called on a recorder that has no stream open (none was
\* constructed, or a previous stop() stopped and closed it) returns an empty
\* buffer at once, without any stream operation.
C10_StopInactiveReturnsEmpty ==
    [][(pc = "idle" /\ pc' # "idle" /\ op' = "stop" /\ audio_recorder # 0
          /\ OpenStreamsOf(audio_recorder) = {})
          => (pc' = "returned" /\ ret' = [raised |-> FALSE, data |-> <<>>])]_vars


\* ------------------------------------------------------ save_audio on its own
SeqsUpTo(n) == UNION {[1..k -> Samples] : k \in 0..n}

\* the file system starts empty; audio_data is any sequence of up to MaxClip samples
EncInit ==
    /\ recording = FALSE
    /\ audio_recorder = 0
    /\ error_message = None
    /\ last_recording_status = None
    /\ download_url = None
    /\ recorders = <<>>
    /\ streams = <<>>
    /\ file = NoFile
    /\ pc = "idle"
    /\ ret \in {[raised |-> FALSE, data |-> d] : d \in SeqsUpTo(MaxClip)}
    /\ cb = CbIdle
    /\ calls = <<>>
    /\ op = "none"
    /\ started = {}
    /\ captured = <<>>
    /\ clip = <<>>
    /\ shown_error = None
    /\ shown_status = None
    /\ shown_url = None

\* save_audio(audio_data, "temp_recording.wav")
EncSave ==
    /\ \E o \in SaveOutcomes :
        LET sv == save_audio(ret.data, file, o)
        IN  /\ file' = sv.file
            /\ clip' = IF sv.result THEN sv.file.frames ELSE <<>>
            /\ calls' = <<Call("save_audio", sv.result)>>
    /\ op' = "save"
    /\ UNCHANGED <<session, shown, recorders, streams, pc, ret, cb, started, captured>>

\* os.remove("temp_recording.wav")
EncRemove ==
    /\ file.exists
    /\ \E o \in CallOutcomes :
        /\ file' = os_remove(file, o)
        /\ calls' = <<Call("os.remove", o = "ok")>>
    /\ op' = "remove"
    /\ UNCHANGED <<session, shown, recorders, streams, pc, ret, cb, started, captured, clip>>

EncNext ==
    \/ EncSave
    \/ EncRemove

EncSpec == EncInit /\ [][EncNext]_vars

\* ------------------------------------------------------- properties, continued
\* C11: a recorder never has a stream open other than the one self.stream
\* refers to: a second start() without a stop() in between opens no second
\* stream beside the first and leaves no stream open and unreferenced.
C11_NoSecondStream ==
    \A r \in DOMAIN recorders : OpenStreamsOf(r) \subseteq {recorders[r].stream}

C13_StreamReleased ==
    (HandlerDone /\ (op = "stop" \/ SomeCallFailed)) => OpenStreams = {}

\* C14: the controller at rest in Idle after a stop whose save_audio failed
\* has no temporary WAV file on disk.
C14_NoFileAfterFailedSave ==
    (pc = "idle" /\ ~recording /\ op = "stop" /\ MadeFailed("save_audio") # {})
        => ~file.exists

\* C15: a buffer changes only in the callback's append, and only while the
\* recorder's recording flag is set.
C15_BufferOnlyWhileRecording ==
    [][\A r \in DOMAIN recorders :
          recorders'[r].audio_data # recorders[r].audio_data
              => (cb.at = "append" /\ cb' = CbIdle /\ recorders[r].recording)]_vars

\* C16: once stop() has returned its snapshot the stream is closed and the
\* buffer stays equal to the snapshot; every append happens on a stream not
\* yet closed and adds its block at the end; and the clip save_audio writes
\* for that stop is the encoding of exactly the frames appended, in order.
StopReturned ==
    /\ op = "stop" /\ pc \in {"returned", "rerun", "idle"}
    /\ ~ret.raised /\ StopHasStream(Self)

C16_SnapshotAfterClose ==
    /\ [](StopReturned =>
            /\ streams[Self.stream].status = "closed"
            /\ Self.audio_data = ret.data
            /\ captured[audio_recorder] = ret.data)
    /\ []((HandlerDone /\ op = "stop" /\ MadeOk("save_audio") # {}) =>
            /\ Len(clip) = Len(captured[audio_recorder])
            /\ \A i \in DOMAIN clip : clip[i] = ToInt16(captured[audio_recorder][i]))
    /\ [][(cb.at = "append" /\ cb' = CbIdle) =>
            LET r == streams[cb.stream].owner
            IN  /\ streams[cb.stream].status # "closed"
                /\ recorders'[r].audio_data = recorders[r].audio_data \o cb.indata]_vars

C16_Witness ==
    /\ HandlerDone /\ op = "stop"
    /\ MadeOk("save_audio") # {}
    /\ Len(ret.data) = 2
    /\ ret.data[1] # ret.data[2]
    /\ Len(clip) = 2

\* C17: start() leaves the buffer empty, the buffer always holds exactly the
\* frames appended since the recorder's last start(), and the snapshot stop()
\* returns is exactly those frames.
StartStep ==
    /\ pc = "idle" /\ pc' = "idle" /\ op' = "start"
    /\ audio_recorder' = audio_recorder /\ cb' = cb

C17_SessionStartsEmpty ==
    /\ [][StartStep => recorders'[audio_recorder].audio_data = <<>>]_vars
    /\ [](\A r \in DOMAIN recorders : recorders[r].audio_data = captured[r])
    /\ [][(pc = "snapshot" /\ pc' = "returned") => ret'.data = captured[audio_recorder]]_vars

C17_Witness ==
    /\ op = "stop" /\ pc = "returned" /\ ~ret.raised
    /\ Len(ret.data) = 1
    /\ Cardinality({s \in DOMAIN streams : streams[s].owner = audio_recorder
                                              /\ streams[s].status = "closed"}) >= 2

\* C18: between user actions, st.session_state['recording'] is True exactly
\* when the session's recorder has its recording flag set and its stream open.
C18_FlagsAgree ==
    pc = "idle" =>
        (recording <=> /\ audio_recorder # 0
                       /\ Self.recording
                       /\ Self.stream # 0
                       /\ streams[Self.stream].status # "closed")

====
